---- MODULE Spec2Model ----
(***************************************************************************)
(* A model of the ACFLS synthesis pipeline: the netlist IR (netlist.py),   *)
(* Elaboration (stage_elaboration.py) and Bit-Blasting                     *)
(* (stage_bitblast.py), with the primitive-gate semantics that             *)
(* stage_export.py writes as truth tables.                                 *)
(*                                                                         *)
(* A Signal is a heap object: objs[id] is its record and signals is the    *)
(* Module's name -> Signal dict, kept as the sequence of ids in insertion  *)
(* order.  A name is the sequence of its "_"-separated tokens, so that     *)
(* f"{base}_{i}" is Append(base, ToString(i)) and a user's a_0 is the very *)
(* name bit_name builds for bit 0 of a.                                    *)
(***************************************************************************)
EXTENDS Integers, Sequences, FiniteSets, TLC

VARIABLES
    pc,        \* position in the pipeline
    design,    \* the input: a parsed syntax tree, or a Module built directly
    objs,      \* heap of Signal objects, id -> [name, width, is_input, is_output, is_reg]
    signals,   \* Module.signals: ids in insertion order (name -> Signal)
    gates,     \* Module.gates
    item,      \* elaboration: index of the next port / item
    hl,        \* the high-level gate sequence handed to Bit-Blasting (history)
    bits_map,  \* bit-blasting: run.bits_map
    new_gates, \* bit-blasting: run.new_gates
    tmp_idx,   \* bit-blasting: run.tmp_idx
    gi,        \* bit-blasting: index of the next gate of the for loop
    val,       \* simulation: value of every free input and register bit
    clocked    \* simulation: the last step was a rising clock edge

vars == <<pc, design, objs, signals, gates, item, hl, bits_map, new_gates, tmp_idx, gi, val,
          clocked>>

\* ------------------------------------------------------------------ bounds
MaxWidth == 2

\* The default width of an unsized literal without context.
DefaultConstWidth == 32

None == 0

Max(a, b) == IF a >= b THEN a ELSE b

Abs(a) == IF a >= 0 THEN a ELSE 0 - a

RECURSIVE Pow2(_)
Pow2(n) == IF n = 0 THEN 1 ELSE 2 * Pow2(n - 1)

\* (v >> i) & 1
BitOf(v, i) == (v \div Pow2(i)) % 2

Range(s) == {s[k] : k \in 1..Len(s)}

\* ------------------------------------------------------------------ netlist.py
\* Signal.__init__
Signal(name, width, is_input, is_output, is_reg) ==
    [name |-> name, width |-> width, is_input |-> is_input,
     is_output |-> is_output, is_reg |-> is_reg]

\* Gate.__init__
Gate(op_type, inputs, output) ==
    [op_type |-> op_type, inputs |-> inputs, output |-> output]

\* A Module under construction: m.objs is the heap, m.sigs the signals dict,
\* m.err is set once an exception has been raised.
\* Module.get_signal: the id stored under the name, or None
get_signal(m, name) ==
    IF \E k \in 1..Len(m.sigs) : m.objs[m.sigs[k]].name = name
    THEN m.sigs[CHOOSE k \in 1..Len(m.sigs) : m.objs[m.sigs[k]].name = name]
    ELSE None

\* Module.add_signal: self.signals[signal.name] = signal
add_signal(m, id) ==
    LET name == m.objs[id].name IN
    IF \E k \in 1..Len(m.sigs) : m.objs[m.sigs[k]].name = name
    THEN [m EXCEPT !.sigs = [k \in 1..Len(m.sigs) |->
                                IF m.objs[m.sigs[k]].name = name THEN id ELSE m.sigs[k]]]
    ELSE [m EXCEPT !.sigs = Append(@, id)]

\* Signal(...) : a new object on the heap (not yet in any dict)
alloc(m, sig) == [m EXCEPT !.objs = Append(@, sig)]

\* ------------------------------------------------------------------ syntax tree
\* The PyVerilog nodes the passes read.
Identifier(name) == [t |-> "Identifier", name |-> name]

\* IntConst: value is the literal's text; sized literals are <w>'<base><digits>
IntConst(sized, w, base, digits, nid) ==
    [t |-> "IntConst", sized |-> sized, w |-> w, base |-> base, digits |-> digits, nid |-> nid]

BinOp(op, left, right) == [t |-> op, left |-> left, right |-> right]

Substitution(lhs, rhs) == [t |-> "Substitution", left |-> lhs, right |-> rhs]

IfStatement(cond, tr, fl) ==
    [t |-> "IfStatement", cond |-> cond, true_statement |-> tr, false_statement |-> fl]

Block(stmts) == [t |-> "Block", statements |-> stmts]

NoStmt == [t |-> "None"]

Ioport(dir, name, ranged, msb, lsb, reg) ==
    [dir |-> dir, name |-> name, ranged |-> ranged, msb |-> msb, lsb |-> lsb, reg |-> reg]

Always(sens, stmt) == [sens |-> sens, statement |-> stmt]

\* ------------------------------------------------------------------ stage_elaboration.py
\* A helper's result is passed on as the argument of the operator that models
\* the statements after it, so that each Python statement is evaluated once.
RECURSIVE DigitsValue(_, _)
DigitsValue(digits, base) ==
    IF Len(digits) = 0 THEN 0
    ELSE DigitsValue(SubSeq(digits, 1, Len(digits) - 1), base) * base + digits[Len(digits)]

\* _parse_const_value: [v, err]; a sized literal of a base other than b/h/d
\* falls through to int(val_str), which raises ValueError
_parse_const_value(c) ==
    IF c.sized
    THEN IF c.base = "b" THEN [v |-> DigitsValue(c.digits, 2), err |-> FALSE]
         ELSE IF c.base = "h" THEN [v |-> DigitsValue(c.digits, 16), err |-> FALSE]
         ELSE IF c.base = "d" THEN [v |-> DigitsValue(c.digits, 10), err |-> FALSE]
         ELSE [v |-> 0, err |-> TRUE]
    ELSE [v |-> DigitsValue(c.digits, 10), err |-> FALSE]

\* _parse_width
_parse_width(p) == IF p.ranged THEN Abs(p.msb - p.lsb) + 1 ELSE 1

\* _intconst_decl_width: the declared width, or None
_intconst_decl_width(c) == IF c.sized THEN c.w ELSE None

\* _get_or_create_signal, s is None: create and add
CreateSignal(m) == [m |-> add_signal(m, Len(m.objs)), s |-> Len(m.objs)]

\* _get_or_create_signal, s exists: widen and merge the flags
MergeSignal(m, s, width, is_input, is_output, is_reg) ==
    [m |-> [m EXCEPT !.objs[s] =
                [@ EXCEPT !.width = IF @ = 1 /\ width # 1 THEN width ELSE @,
                          !.is_input = @ \/ is_input,
                          !.is_output = @ \/ is_output,
                          !.is_reg = @ \/ is_reg]],
     s |-> s]

\* _get_or_create_signal: [m, s]
_get_or_create_signal(m, name, width, is_input, is_output, is_reg) ==
    IF get_signal(m, name) = None
    THEN CreateSignal(alloc(m, Signal(name, width, is_input, is_output, is_reg)))
    ELSE MergeSignal(m, get_signal(m, name), width, is_input, is_output, is_reg)

OpMap == [Plus |-> "ADD", Eq |-> "EQ", Land |-> "AND", Lor |-> "OR"]

\* the name of an operator's result: f"tmp_{op_name}_{len(mod.gates)}"
ElabTmpName(op_name, n) == <<"tmp", op_name, ToString(n)>>

\* f"CONST_{val}_{w}b_{id(expr)}"
ConstName(v, w, nid) == <<"CONST", ToString(v), ToString(w) \o "b", ToString(nid)>>

\* The (signal, gates) pair an expression or statement compiles to, with the
\* Module as it is afterwards
Compiled(m, sig, gs) == [m |-> m, sig |-> sig, gs |-> gs]

Raised(m) == Compiled([m EXCEPT !.err = TRUE], None, <<>>)

\* _expr_to_signal_and_gates, Identifier: propagate the expected width
IdentifierSignal(r, expected_width) ==
    IF expected_width # None /\ r.m.objs[r.s].width = 1 /\ expected_width # 1
    THEN Compiled([r.m EXCEPT !.objs[r.s].width = expected_width], r.s, <<>>)
    ELSE Compiled(r.m, r.s, <<>>)

\* w = declared_w or expected_width or 32
ConstWidth(expr, expected_width) ==
    IF _intconst_decl_width(expr) # 0 THEN _intconst_decl_width(expr)
    ELSE IF expected_width # None THEN expected_width
    ELSE DefaultConstWidth

\* _expr_to_signal_and_gates, IntConst: the constant Signal
ConstSignal(r) == Compiled(r.m, r.s, <<>>)

\* Determine Output Width
OutWidth(op_name, a, b, expected_width) ==
    IF op_name \in {"EQ", "AND", "OR"} THEN 1
    ELSE IF expected_width # None THEN expected_width
    ELSE Max(b.m.objs[a.sig].width, b.m.objs[b.sig].width)

\* extra_gates.append(Gate(op_name, [a_sig, b_sig], tmp)); return tmp, extra_gates
OperatorGate(op_name, a, b, tmp) ==
    Compiled(tmp.m, tmp.s, (a.gs \o b.gs) \o <<Gate(op_name, <<a.sig, b.sig>>, tmp.s)>>)

\* _expr_to_signal_and_gates, binary operator, once both operands are compiled
OperatorResult(op_name, a, b, expected_width, n) ==
    IF b.m.err THEN Compiled(b.m, None, <<>>)
    ELSE OperatorGate(op_name, a, b,
            _get_or_create_signal(b.m, ElabTmpName(op_name, n),
                                  OutWidth(op_name, a, b, expected_width), FALSE, FALSE, FALSE))

\* _expr_to_signal_and_gates(mod, expr, expected_width): [m, sig, gs]
\* n is len(mod.gates), which does not change while an expression is compiled.
RECURSIVE _expr_to_signal_and_gates(_, _, _, _)
RECURSIVE OperatorRight(_, _, _, _, _)
_expr_to_signal_and_gates(m, expr, expected_width, n) ==
    IF m.err THEN Compiled(m, None, <<>>)
    ELSE IF expr.t = "Identifier"
    THEN IdentifierSignal(_get_or_create_signal(m, expr.name, 1, FALSE, FALSE, FALSE),
                          expected_width)
    ELSE IF expr.t = "IntConst"
    THEN IF _parse_const_value(expr).err THEN Raised(m)
         ELSE ConstSignal(_get_or_create_signal(m,
                 ConstName(_parse_const_value(expr).v, ConstWidth(expr, expected_width), expr.nid),
                 ConstWidth(expr, expected_width), FALSE, FALSE, FALSE))
    ELSE IF expr.t \in DOMAIN OpMap
    THEN OperatorRight(OpMap[expr.t],
                       _expr_to_signal_and_gates(m, expr.left,
                            IF OpMap[expr.t] = "ADD" THEN expected_width ELSE None, n),
                       expr, expected_width, n)
    ELSE Raised(m)

\* _expr_to_signal_and_gates, binary operator: the right operand, the left one (a) done
OperatorRight(op_name, a, expr, expected_width, n) ==
    OperatorResult(op_name, a,
                   _expr_to_signal_and_gates(a.m, expr.right,
                        IF op_name = "ADD" THEN expected_width ELSE None, n),
                   expected_width, n)

\* f"mux_{target_name}_{len(mod.gates)}"
MuxName(target_name, n) == <<"mux">> \o target_name \o <<ToString(n)>>

\* Fault: the MUX gate built with its two data inputs exchanged
MuxGate_Swapped(c, tr, fl, mux_out) ==
    Compiled(mux_out.m, mux_out.s,
             ((c.gs \o tr.gs) \o fl.gs) \o <<Gate("MUX", <<c.sig, fl.sig, tr.sig>>, mux_out.s)>>)

\* gates.append(Gate("MUX", [cond_sig, true_sig, false_sig], mux_out))
MuxGate(c, tr, fl, mux_out) ==
    Compiled(mux_out.m, mux_out.s,
             ((c.gs \o tr.gs) \o fl.gs) \o <<Gate("MUX", <<c.sig, tr.sig, fl.sig>>, mux_out.s)>>)

\* _build_mux_tree, IfStatement, 4. Create MUX
MuxResult(c, tr, fl, target_name, n) ==
    IF fl.m.err \/ tr.sig = None \/ fl.sig = None THEN Compiled(fl.m, None, <<>>)
    ELSE MuxGate(c, tr, fl,
            _get_or_create_signal(fl.m, MuxName(target_name, n), fl.m.objs[tr.sig].width,
                                  FALSE, FALSE, FALSE))

\* _build_mux_tree(mod, stmt, target_name): [m, sig, gs]; sig = None is "no result"
RECURSIVE _build_mux_tree(_, _, _, _)
RECURSIVE MuxTrueBranch(_, _, _, _)
RECURSIVE MuxFalseBranch(_, _, _, _, _)
_build_mux_tree(m, stmt, target_name, n) ==
    IF m.err THEN Compiled(m, None, <<>>)
    ELSE IF stmt.t = "Block"
    THEN IF Len(stmt.statements) = 0 THEN Compiled(m, None, <<>>)
         ELSE _build_mux_tree(m, stmt.statements[1], target_name, n)
    ELSE IF stmt.t = "Substitution"
    THEN IF stmt.left # target_name THEN Compiled(m, None, <<>>)
         ELSE _expr_to_signal_and_gates(m, stmt.right,
                                        m.objs[get_signal(m, target_name)].width, n)
    ELSE IF stmt.t = "IfStatement"
    THEN MuxTrueBranch(_expr_to_signal_and_gates(m, stmt.cond, None, n), stmt, target_name, n)
    ELSE Compiled(m, None, <<>>)

\* _build_mux_tree, IfStatement, 2. True Branch
MuxTrueBranch(c, stmt, target_name, n) ==
    MuxFalseBranch(c, _build_mux_tree(c.m, stmt.true_statement, target_name, n),
                   stmt, target_name, n)

\* _build_mux_tree, IfStatement, 3. False Branch
MuxFalseBranch(c, tr, stmt, target_name, n) ==
    MuxResult(c, tr,
              IF stmt.false_statement.t # "None"
              THEN _build_mux_tree(tr.m, stmt.false_statement, target_name, n)
              ELSE Compiled(tr.m, get_signal(tr.m, target_name), <<>>),
              target_name, n)

\* The first statement of a begin/end block, the statement itself otherwise;
\* statements[0] of an empty block raises IndexError.
Unblock(stmt) ==
    IF stmt.t = "Block"
    THEN IF Len(stmt.statements) = 0 THEN [stmt |-> NoStmt, err |-> TRUE]
         ELSE [stmt |-> stmt.statements[1], err |-> FALSE]
    ELSE [stmt |-> stmt, err |-> FALSE]

\* The Module and mod.gates as one Always item leaves them
Elaborated(m, gs) == [m |-> m, gs |-> gs]

Fail(m, gs) == Elaborated([m EXCEPT !.err = TRUE], gs)

\* run, clocked: mod.add_gate(Gate("DFF_EN_RST", [...], target_sig))
ClockedDff(nx, gs, ids) ==
    IF nx.m.err THEN Fail(nx.m, gs)
    ELSE Elaborated(nx.m,
            (gs \o nx.gs) \o
            <<Gate("DFF_EN_RST",
                   <<nx.sig, ids.target, ids.en, ids.rst_val, ids.rst, ids.clk>>, ids.target)>>)

\* run, clocked: the next value, en being the enable Signal
ClockedNext(en, gs, en_then, ids) ==
    IF en_then.err \/ en_then.stmt.t # "Substitution" THEN Fail(en.m, gs)
    ELSE ClockedDff(_expr_to_signal_and_gates(en.m, en_then.stmt.right,
                                              en.m.objs[ids.target].width, Len(gs)),
                    gs, [ids EXCEPT !.en = en.s])

\* run, clocked, "Enable / Else": rv is the compiled reset value
ClockedEnable(rv, gs, else_stmt, ids) ==
    IF rv.m.err THEN Fail(rv.m, gs)
    ELSE IF else_stmt.t # "IfStatement" THEN Elaborated(rv.m, gs \o rv.gs)
    ELSE IF else_stmt.cond.t # "Identifier" THEN Fail(rv.m, gs \o rv.gs)
    ELSE ClockedNext(_get_or_create_signal(rv.m, else_stmt.cond.name, 1, FALSE, FALSE, FALSE),
                     gs \o rv.gs, Unblock(else_stmt.true_statement),
                     [ids EXCEPT !.rst_val = rv.sig])

\* run, clocked, "Reset Value": target is the target register
ClockedResetValue(target, gs, body, then_stmt, ids) ==
    ClockedEnable(_expr_to_signal_and_gates(target.m, then_stmt.right,
                                            target.m.objs[target.s].width, Len(gs)),
                  gs, body.false_statement, [ids EXCEPT !.target = target.s])

\* run, clocked, "Target Register": rst is the reset Signal
ClockedTarget(rst, gs, body, then_stmt, ids) ==
    IF then_stmt.err \/ then_stmt.stmt.t # "Substitution" THEN Fail(rst.m, gs)
    ELSE ClockedResetValue(
            _get_or_create_signal(rst.m, then_stmt.stmt.left, 1, FALSE, FALSE, FALSE),
            gs, body, then_stmt.stmt, [ids EXCEPT !.rst = rst.s])

\* run, clocked, "Assume if(rst)... pattern": clk is the clock Signal
ClockedBody(clk, gs, body) ==
    IF body.err THEN Fail(clk.m, gs)
    ELSE IF body.stmt.t # "IfStatement" THEN Elaborated(clk.m, gs)
    ELSE IF body.stmt.cond.t # "Identifier" THEN Fail(clk.m, gs)
    ELSE ClockedTarget(
            _get_or_create_signal(clk.m, body.stmt.cond.name, 1, FALSE, FALSE, FALSE),
            gs, body.stmt, Unblock(body.stmt.true_statement),
            [clk |-> clk.s, rst |-> None, target |-> None, rst_val |-> None, en |-> None])

\* run, one clocked Always item (is_clocked): [m, gs]
ClockedItem(m, gs, always) ==
    ClockedBody(_get_or_create_signal(m, always.sens[1].sig, 1, TRUE, FALSE, FALSE),
                gs, Unblock(always.statement))

\* target_candidates = [s.name for s in mod.signals.values() if s.is_output or s.is_reg]
RECURSIVE target_candidates(_, _)
target_candidates(m, k) ==
    IF k > Len(m.sigs) THEN <<>>
    ELSE (IF m.objs[m.sigs[k]].is_output \/ m.objs[m.sigs[k]].is_reg
          THEN <<m.objs[m.sigs[k]].name>> ELSE <<>>) \o target_candidates(m, k + 1)

\* run, the loop over the target candidates of one unclocked Always item: [m, gs]
RECURSIVE CombTargets(_, _, _, _, _)
RECURSIVE CombTarget(_, _, _, _, _)
CombTargets(m, gs, stmt, cands, k) ==
    IF k > Len(cands) \/ m.err THEN Elaborated(m, gs)
    ELSE CombTarget(_build_mux_tree(m, stmt, cands[k], Len(gs)), gs, stmt, cands, k)

\* run, "if final_sig:": the gates of the tree, then the BUF to the target
CombTarget(r, gs, stmt, cands, k) ==
    IF r.m.err THEN Elaborated(r.m, gs)
    ELSE IF r.sig = None THEN CombTargets(r.m, gs, stmt, cands, k + 1)
    ELSE CombTargets(r.m,
                     (gs \o r.gs) \o <<Gate("BUF", <<r.sig>>, get_signal(r.m, cands[k]))>>,
                     stmt, cands, k + 1)

CombItem(m, gs, always) == CombTargets(m, gs, always.statement, target_candidates(m, 1), 1)

\* is_clocked: some entry of the sensitivity list is a posedge
is_clocked(always) == \E k \in 1..Len(always.sens) : always.sens[k].type = "posedge"

\* The Module as run holds it
Mod == [objs |-> objs, sigs |-> signals, err |-> FALSE]

\* run, 1. Parse Ports: the Signal of one port
PortSignal(m, p) ==
    IF p.dir = "input"
    THEN _get_or_create_signal(m, p.name, _parse_width(p), TRUE, FALSE, FALSE)
    ELSE _get_or_create_signal(m, p.name, _parse_width(p), FALSE, TRUE, p.reg)

\* run, 1. Parse Ports: one port of the port list
PortStep(r) ==
    /\ objs' = r.m.objs
    /\ signals' = r.m.sigs
    /\ IF item = Len(design.ports)
       THEN pc' = "items" /\ item' = 1
       ELSE pc' = pc /\ item' = item + 1
    /\ UNCHANGED <<design, gates, hl, bits_map, new_gates, tmp_idx, gi, val, clocked>>

ParsePort ==
    /\ pc = "ports"
    /\ item <= Len(design.ports)
    /\ PortStep(PortSignal(Mod, design.ports[item]))

\* run, 2. Parse Items: the Module after one Always item; an exception ends the run
ItemStep(r) ==
    /\ objs' = r.m.objs
    /\ signals' = r.m.sigs
    /\ gates' = r.gs
    /\ pc' = IF r.m.err THEN "error" ELSE pc
    /\ item' = item + 1
    /\ UNCHANGED <<design, hl, bits_map, new_gates, tmp_idx, gi, val, clocked>>

\* run, 2. Parse Items: a clocked Always block
ElabClocked ==
    /\ pc = "items"
    /\ item <= Len(design.items)
    /\ is_clocked(design.items[item])
    /\ ItemStep(ClockedItem(Mod, gates, design.items[item]))

\* run, 2. Parse Items: an unclocked Always block
ElabComb ==
    /\ pc = "items"
    /\ item <= Len(design.items)
    /\ ~is_clocked(design.items[item])
    /\ ItemStep(CombItem(Mod, gates, design.items[item]))

\* run: return mod; the Module goes to stage_bitblast.run
ElabReturn ==
    /\ pc = "items"
    /\ item > Len(design.items)
    /\ pc' = "bitblast"
    /\ hl' = gates
    /\ UNCHANGED <<design, objs, signals, gates, item, bits_map, new_gates, tmp_idx, gi, val, clocked>>

\* ------------------------------------------------------------------ stage_bitblast.py
\* The largest literal value a Signal name is decoded to.
MaxLiteral == 7

\* bit_name: f"{base}_{i}"
bit_name(base, i) == Append(base, ToString(i))

\* tmp_name: f"tmp_{prefix}_{idx}"; prefix is given by its tokens
tmp_name(prefix, idx) == (<<"tmp">> \o prefix) \o <<ToString(idx)>>

\* int(value, 0), and 0 when it raises
IntOfToken(tok) ==
    IF \E v \in 0..MaxLiteral : ToString(v) = tok
    THEN CHOOSE v \in 0..MaxLiteral : ToString(v) = tok
    ELSE 0

\* parse_verilog_const on one token of a Signal name. A token holds no quote,
\* so _const_re never matches it and the int(value, 0) branch is taken.
parse_verilog_const(value, width_hint) ==
    [i \in 1..Max(1, width_hint) |-> BitOf(IntOfToken(value), i - 1)]

\* dict assignment d[k] = v
Put(d, k, v) == [x \in DOMAIN d \cup {k} |-> IF x = k THEN v ELSE d[x]]

\* The state of one run of the pass is the record st: the Module (objs, sigs,
\* err), the closure variables bm (bits_map), ng (new_gates), tmp (tmp_idx),
\* and loc, the local variables of the loop body.  A helper returns [st, v]:
\* the state afterwards and the value it returns.
Returned(st, v) == [st |-> st, v |-> v]

\* name = <the value a helper returned>
Local(name, r) == [r.st EXCEPT !.loc = Put(@, name, r.v)]

\* name = v
SetLocal(st, name, v) == [st EXCEPT !.loc = Put(@, name, v)]

\* b = Signal(bn, width=1, ...); mod.add_signal(b), st holding the new object last
AddNewest(st) == add_signal(st, Len(st.objs))

\* run.get_bits, the loop over the bits of a bus: [st, v]
RECURSIVE BusBits(_, _, _, _)
BusBits(st, sig, i, blist) ==
    IF i >= st.objs[sig].width THEN Returned(st, blist)
    ELSE IF get_signal(st, bit_name(st.objs[sig].name, i)) # None
    THEN BusBits(st, sig, i + 1, Append(blist, get_signal(st, bit_name(st.objs[sig].name, i))))
    ELSE BusBits(AddNewest(alloc(st, Signal(bit_name(st.objs[sig].name, i), 1,
                                            st.objs[sig].is_input, st.objs[sig].is_output,
                                            st.objs[sig].is_reg))),
                 sig, i + 1, Append(blist, Len(st.objs) + 1))

\* bits_map[sig.name] = blist; return blist
CacheBits(r, name) == Returned([r.st EXCEPT !.bm = Put(@, name, r.v)], r.v)

\* run.get_bits: [st, v]
get_bits(st, sig) ==
    IF st.objs[sig].width = 1
    THEN Returned([st EXCEPT !.bm = Put(@, st.objs[sig].name, <<sig>>)], <<sig>>)
    ELSE IF st.objs[sig].name \in DOMAIN st.bm
    THEN Returned(st, st.bm[st.objs[sig].name])
    ELSE CacheBits(BusBits(st, sig, 0, <<>>), st.objs[sig].name)

\* run, "Pre-create bit signals": get_bits over a snapshot of the signals
RECURSIVE PreCreate(_, _, _)
PreCreate(st, snapshot, k) ==
    IF k > Len(snapshot) \/ st.err THEN st
    ELSE PreCreate(get_bits(st, snapshot[k]).st, snapshot, k + 1)

\* sig.name.startswith("CONST_")
IsConstName(name) == Len(name) >= 2 /\ name[1] = "CONST"

\* The global logic-0 / logic-1 Signals of run
const0(st) == get_signal(st, <<"CONST0">>)

const1(st) == get_signal(st, <<"CONST1">>)

\* out.append(const1 if b == 1 else const0)
ConstRefs(st, bits) ==
    [i \in 1..Len(bits) |-> IF bits[i] = 1 THEN const1(st) ELSE const0(st)]

\* run.const_bits_from_signal: [st, v]
const_bits_from_signal(st, sig, width_hint) ==
    IF ~IsConstName(st.objs[sig].name) THEN get_bits(st, sig)
    ELSE Returned(st, ConstRefs(st, parse_verilog_const(st.objs[sig].name[2], width_hint)))

\* run.get_operand_bits, "Pad with 0s if too short" and bits[:width]
PadTo(r, width) ==
    Returned(r.st,
             SubSeq(IF Len(r.v) < width
                    THEN r.v \o [i \in 1..(width - Len(r.v)) |-> const0(r.st)]
                    ELSE r.v,
                    1, width))

\* run.get_operand_bits: [st, v]
get_operand_bits(st, sig, width) ==
    PadTo(IF IsConstName(st.objs[sig].name)
          THEN const_bits_from_signal(st, sig, width)
          ELSE get_bits(st, sig),
          width)

\* Fault: a temporary that is created but never added to mod.signals
NewestSignal_Unregistered(st) == Returned(st, Len(st.objs))

\* s = Signal(name=name, width=1); mod.add_signal(s); return s
NewestSignal(st) == Returned(AddNewest(st), Len(st.objs))

\* run.new_tmp: [st, v]
new_tmp(st, prefix) ==
    IF get_signal(st, tmp_name(prefix, st.tmp)) # None
    THEN Returned([st EXCEPT !.tmp = @ + 1], get_signal(st, tmp_name(prefix, st.tmp)))
    ELSE NewestSignal(alloc([st EXCEPT !.tmp = @ + 1],
                            Signal(tmp_name(prefix, st.tmp), 1, FALSE, FALSE, FALSE)))

\* 1-bit primitive constructors
XOR2(st, a, b, out) == [st EXCEPT !.ng = Append(@, Gate("XOR", <<a, b>>, out))]

AND2(st, a, b, out) == [st EXCEPT !.ng = Append(@, Gate("AND", <<a, b>>, out))]

OR2(st, a, b, out) == [st EXCEPT !.ng = Append(@, Gate("OR", <<a, b>>, out))]

\* Fault: an inverter emitted under a tag outside the primitive set
NOT1_Inv(st, a, out) == [st EXCEPT !.ng = Append(@, Gate("INV", <<a>>, out))]

NOT1(st, a, out) == [st EXCEPT !.ng = Append(@, Gate("NOT", <<a>>, out))]

MUX2(st, sel, d1, d0, out) == [st EXCEPT !.ng = Append(@, Gate("MUX", <<sel, d1, d0>>, out))]

DFF(st, d, clk, q) == [st EXCEPT !.ng = Append(@, Gate("DFF", <<d, clk>>, q))]

\* an IndexError: the pass aborts
Raise(st) == [st EXCEPT !.err = TRUE]

\* name = <the returned list>[0]
FirstOf(name, r) == IF Len(r.v) = 0 THEN Raise(r.st) ELSE SetLocal(r.st, name, r.v[1])

\* run, BITWISE OPS: constructor(a_bits[i], b_bits[i], out_bits[i])
BitwiseGate(st, op, i) ==
    IF op = "XOR" THEN XOR2(st, st.loc["a_bits"][i], st.loc["b_bits"][i], st.loc["out_bits"][i])
    ELSE IF op = "AND"
    THEN AND2(st, st.loc["a_bits"][i], st.loc["b_bits"][i], st.loc["out_bits"][i])
    ELSE OR2(st, st.loc["a_bits"][i], st.loc["b_bits"][i], st.loc["out_bits"][i])

RECURSIVE BitwiseLoop(_, _, _, _)
BitwiseLoop(st, op, i, w) ==
    IF i > w \/ st.err THEN st ELSE BitwiseLoop(BitwiseGate(st, op, i), op, i + 1, w)

\* run, BITWISE OPS (AND, OR, XOR)
LowerBitwise(st, g) ==
    LET w == st.objs[g.output].width
        s1 == Local("a_bits", get_operand_bits(st, g.inputs[1], w))
        s2 == Local("b_bits", get_operand_bits(s1, g.inputs[2], w))
        s3 == Local("out_bits", get_bits(s2, g.output))
    IN BitwiseLoop(s3, g.op_type, 1, w)

\* Fault: the XOR of a bit pair collected in place of its XNOR
EqXnorGates_NoInvert(st, i) ==
    SetLocal(NOT1(XOR2(st, st.loc["a_bits"][i], st.loc["b_bits"][i], st.loc["t_xor"]),
                  st.loc["t_xor"], st.loc["t_xnor"]),
             "eq_bits", Append(st.loc["eq_bits"], st.loc["t_xor"]))

\* run, EQUALITY: XOR2(a_bits[i], b_bits[i], t_xor); NOT1(t_xor, t_xnor);
\* eq_bits.append(t_xnor)
EqXnorGates(st, i) ==
    SetLocal(NOT1(XOR2(st, st.loc["a_bits"][i], st.loc["b_bits"][i], st.loc["t_xor"]),
                  st.loc["t_xor"], st.loc["t_xnor"]),
             "eq_bits", Append(st.loc["eq_bits"], st.loc["t_xnor"]))

\* run, EQUALITY: the per-bit XNOR loop
RECURSIVE EqXnorLoop(_, _, _)
EqXnorLoop(st, i, w) ==
    IF i > w \/ st.err THEN st
    ELSE LET s1 == Local("t_xor", new_tmp(st, <<"xor", "eq">>))
             s2 == Local("t_xnor", new_tmp(s1, <<"xnor", "eq">>))
             s3 == EqXnorGates(s2, i)
         IN EqXnorLoop(s3, i + 1, w)

\* run, EQUALITY: AND2(curr, eq_bits[i], next_tmp); curr = next_tmp
EqReduceGate(st, i) ==
    SetLocal(AND2(st, st.loc["curr"], st.loc["eq_bits"][i], st.loc["next_tmp"]),
             "curr", st.loc["next_tmp"])

\* run, EQUALITY: the AND reduction chain
RECURSIVE EqReduceLoop(_, _)
EqReduceLoop(st, i) ==
    IF i > Len(st.loc["eq_bits"]) \/ st.err THEN st
    ELSE EqReduceLoop(EqReduceGate(Local("next_tmp", new_tmp(st, <<"and", "red">>)), i), i + 1)

\* AND2(x, const1, get_bits(out)[0]), r being what get_bits(out) returned
BufferGate(r, x) ==
    IF Len(r.v) = 0 THEN Raise(r.st) ELSE AND2(r.st, x, const1(r.st), r.v[1])

\* run, EQUALITY: "Connect final result"
EqConnect(st, out) == BufferGate(get_bits(st, out), st.loc["curr"])

\* run, EQUALITY: "Reduce AND"
EqReduce(st, out) ==
    IF Len(st.loc["eq_bits"]) = 0 THEN BufferGate(get_bits(st, out), const1(st))
    ELSE IF Len(st.loc["eq_bits"]) = 1 THEN BufferGate(get_bits(st, out), st.loc["eq_bits"][1])
    ELSE EqConnect(EqReduceLoop(SetLocal(st, "curr", st.loc["eq_bits"][1]), 2), out)

\* run, EQUALITY (==)
LowerEQ(st, g) ==
    LET w == Max(st.objs[g.inputs[1]].width, st.objs[g.inputs[2]].width)
        s1 == Local("a_bits", get_operand_bits(st, g.inputs[1], w))
        s2 == Local("b_bits", get_operand_bits(s1, g.inputs[2], w))
        s3 == EqXnorLoop(SetLocal(s2, "eq_bits", <<>>), 1, w)
    IN EqReduce(s3, g.output)

\* Fault: the per-bit MUX with the true and false bits exchanged
MuxGateBit_Exchanged(st, i) ==
    MUX2(st, st.loc["sel_bit"], st.loc["f_bits"][i], st.loc["t_bits"][i], st.loc["out_bits"][i])

\* run, MULTIPLEXER: MUX2(sel_bit, t_bits[i], f_bits[i], out_bits[i])
MuxGateBit(st, i) ==
    MUX2(st, st.loc["sel_bit"], st.loc["t_bits"][i], st.loc["f_bits"][i], st.loc["out_bits"][i])

RECURSIVE MuxLoop(_, _, _)
MuxLoop(st, i, w) ==
    IF i > w \/ st.err THEN st ELSE MuxLoop(MuxGateBit(st, i), i + 1, w)

\* run, MULTIPLEXER (MUX)
LowerMUX(st, g) ==
    LET w == st.objs[g.output].width
        s1 == FirstOf("sel_bit", get_bits(st, g.inputs[1]))
        s2 == Local("t_bits", get_operand_bits(s1, g.inputs[2], w))
        s3 == Local("f_bits", get_operand_bits(s2, g.inputs[3], w))
        s4 == Local("out_bits", get_bits(s3, g.output))
    IN MuxLoop(s4, 1, w)

\* Fault: the ripple chain started with a carry-in of logic-1
FirstCarry_One(st) == SetLocal(st, "carry", const1(st))

\* run, ADD: carry = const0
FirstCarry(st) == SetLocal(st, "carry", const0(st))

\* run, ADD: XOR2(a_bits[i], b_bits[i], t1); XOR2(t1, carry, sbit)
SumGates(st, i) ==
    XOR2(XOR2(st, st.loc["a_bits"][i], st.loc["b_bits"][i], st.loc["t1"]),
         st.loc["t1"], st.loc["carry"], st.loc["out_bits"][i])

\* run, ADD: AND2(a, b, t_ab); AND2(a, carry, t_ac); AND2(b, carry, t_bc)
CarryAnds(st, i) ==
    AND2(AND2(AND2(st, st.loc["a_bits"][i], st.loc["b_bits"][i], st.loc["t_ab"]),
              st.loc["a_bits"][i], st.loc["carry"], st.loc["t_ac"]),
         st.loc["b_bits"][i], st.loc["carry"], st.loc["t_bc"])

\* run, ADD: OR2(t_ab, t_ac, t_or1)
CarryOr1(st) == OR2(st, st.loc["t_ab"], st.loc["t_ac"], st.loc["t_or1"])

\* run, ADD: OR2(t_or1, t_bc, cnext); carry = cnext
CarryOr2(st) ==
    SetLocal(OR2(st, st.loc["t_or1"], st.loc["t_bc"], st.loc["cnext"]),
             "carry", st.loc["cnext"])

\* run, ADD: the loop over the bit positions
RECURSIVE AddLoop(_, _, _)
AddLoop(st, i, w) ==
    IF i > w \/ st.err THEN st
    ELSE LET s1 == Local("t1", new_tmp(st, <<"xor">>))
             s2 == SumGates(s1, i)
             s3 == Local("t_ab", new_tmp(s2, <<"and">>))
             s4 == Local("t_ac", new_tmp(s3, <<"and">>))
             s5 == Local("t_bc", new_tmp(s4, <<"and">>))
             s6 == CarryAnds(s5, i)
             s7 == Local("t_or1", new_tmp(s6, <<"or">>))
             s8 == CarryOr1(s7)
             s9 == Local("cnext", new_tmp(s8, <<"or">>))
             s10 == CarryOr2(s9)
         IN AddLoop(s10, i + 1, w)

\* run, ADD (Ripple Carry)
LowerADD(st, g) ==
    LET w == st.objs[g.output].width
        s1 == Local("a_bits", get_operand_bits(st, g.inputs[1], w))
        s2 == Local("b_bits", get_operand_bits(s1, g.inputs[2], w))
        s3 == Local("out_bits", get_bits(s2, g.output))
        s4 == FirstCarry(s3)
    IN AddLoop(s4, 1, w)

\* run, DFF_EN_RST: MUX2(en_b, d_en_bits[i], q_old_bits[i], mux_en)
EnableMux(st, i) ==
    MUX2(st, st.loc["en_b"], st.loc["d_en_bits"][i], st.loc["q_old_bits"][i], st.loc["mux_en"])

\* Fault: the reset MUX with its data inputs exchanged, reset selecting the enable path
ResetMux_Exchanged(st, i) ==
    DFF(MUX2(st, st.loc["rst_b"], st.loc["mux_en"], st.loc["d_rst_bits"][i], st.loc["mux_rst"]),
        st.loc["mux_rst"], st.loc["clk_b"], st.loc["q_bits"][i])

\* run, DFF_EN_RST: MUX2(rst_b, d_rst_bits[i], mux_en, mux_rst); DFF(mux_rst, clk_b, q_bits[i])
ResetMux(st, i) ==
    DFF(MUX2(st, st.loc["rst_b"], st.loc["d_rst_bits"][i], st.loc["mux_en"], st.loc["mux_rst"]),
        st.loc["mux_rst"], st.loc["clk_b"], st.loc["q_bits"][i])

\* run, DFF_EN_RST: the loop over the bit positions
RECURSIVE DffLoop(_, _, _)
DffLoop(st, i, w) ==
    IF i > w \/ st.err THEN st
    ELSE LET s1 == Local("mux_en", new_tmp(st, <<"mux">>))
             s2 == EnableMux(s1, i)
             s3 == Local("mux_rst", new_tmp(s2, <<"mux">>))
             s4 == ResetMux(s3, i)
         IN DffLoop(s4, i + 1, w)

\* run, DFF_EN_RST (Macro): inputs [d_en, q_old, en, d_rst, rst, clk]
LowerDFF(st, g) ==
    LET w == st.objs[g.output].width
        s1 == Local("d_en_bits", get_operand_bits(st, g.inputs[1], w))
        s2 == Local("d_rst_bits", get_operand_bits(s1, g.inputs[4], w))
        s3 == Local("q_old_bits", get_operand_bits(s2, g.inputs[2], w))
        s4 == Local("q_bits", get_bits(s3, g.output))
        s5 == FirstOf("en_b", get_bits(s4, g.inputs[3]))
        s6 == FirstOf("rst_b", get_bits(s5, g.inputs[5]))
        s7 == FirstOf("clk_b", get_bits(s6, g.inputs[6]))
    IN DffLoop(s7, 1, w)

\* run, passthrough: NOT1(inp0, out0) / AND2(inp0, const1, out0)
UnaryGate(st, op) ==
    IF st.err THEN st
    ELSE IF op = "NOT" THEN NOT1(st, st.loc["inp0"], st.loc["out0"])
    ELSE AND2(st, st.loc["inp0"], const1(st), st.loc["out0"])

\* run, passthrough of NOT and BUF
LowerNOTBUF(st, g) ==
    LET s1 == FirstOf("inp0", get_bits(st, g.inputs[1]))
        s2 == FirstOf("out0", get_bits(s1, g.output))
    IN UnaryGate(s2, g.op_type)

\* The closure state of run as the pass holds it
BB == [objs |-> objs, sigs |-> signals, err |-> FALSE,
       bm |-> bits_map, ng |-> new_gates, tmp |-> tmp_idx, loc |-> <<>>]

\* run, 0) Ensure global CONST0/CONST1 exist
EnsureConst(st, name) ==
    IF get_signal(st, name) # None THEN st
    ELSE AddNewest(alloc(st, Signal(name, 1, FALSE, FALSE, FALSE)))

\* run, 1) Build bit-signal mapping: for s in list(mod.signals.values()): get_bits(s)
PreCreateAll(st) == PreCreate(st, st.sigs, 1)

SetupStep(st) ==
    /\ objs' = st.objs
    /\ signals' = st.sigs
    /\ bits_map' = st.bm
    /\ new_gates' = <<>>
    /\ tmp_idx' = 0
    /\ gi' = 1
    /\ pc' = "gates"
    /\ UNCHANGED <<design, gates, item, hl, val, clocked>>

\* run, steps 0) and 1): the constants, bits_map and the pre-created bit signals
BBSetup ==
    /\ pc = "bitblast"
    /\ SetupStep(PreCreateAll(EnsureConst(EnsureConst(
          [objs |-> objs, sigs |-> signals, err |-> FALSE,
           bm |-> <<>>, ng |-> <<>>, tmp |-> 0, loc |-> <<>>],
          <<"CONST0">>), <<"CONST1">>)))

\* run, "for g in mod.gates": the state after the body has run for gates[gi]
LoopStep(st) ==
    /\ objs' = st.objs
    /\ signals' = st.sigs
    /\ bits_map' = st.bm
    /\ new_gates' = st.ng
    /\ tmp_idx' = st.tmp
    /\ gi' = gi + 1
    /\ pc' = IF st.err THEN "error" ELSE pc
    /\ UNCHANGED <<design, gates, item, hl, val, clocked>>

AtGate(ops) == pc = "gates" /\ gi <= Len(gates) /\ gates[gi].op_type \in ops

BlastBitwise == AtGate({"AND", "OR", "XOR"}) /\ LoopStep(LowerBitwise(BB, gates[gi]))

BlastEQ == AtGate({"EQ"}) /\ LoopStep(LowerEQ(BB, gates[gi]))

BlastMUX == AtGate({"MUX"}) /\ LoopStep(LowerMUX(BB, gates[gi]))

BlastADD == AtGate({"ADD"}) /\ LoopStep(LowerADD(BB, gates[gi]))

BlastDFF == AtGate({"DFF_EN_RST"}) /\ LoopStep(LowerDFF(BB, gates[gi]))

BlastNOTBUF == AtGate({"NOT", "BUF"}) /\ LoopStep(LowerNOTBUF(BB, gates[gi]))

Lowered == {"AND", "OR", "XOR", "EQ", "MUX", "ADD", "DFF_EN_RST", "NOT", "BUF"}

\* run: raise NotImplementedError(f"Bitblast: unsupported gate type {op}")
BlastUnsupported ==
    /\ pc = "gates"
    /\ gi <= Len(gates)
    /\ gates[gi].op_type \notin Lowered
    /\ pc' = "error"
    /\ UNCHANGED <<design, objs, signals, gates, item, hl, bits_map, new_gates, tmp_idx, gi, val, clocked>>

\* ------------------------------------------------------------------ gate semantics
\* The truth tables stage_export.py writes for the primitive gates.
GateValue(g, env) ==
    LET in(k) == env[g.inputs[k]] IN
    IF g.op_type = "NOT" THEN 1 - in(1)
    ELSE IF g.op_type = "BUF" THEN in(1)
    ELSE IF g.op_type = "AND" THEN (IF in(1) = 1 /\ in(2) = 1 THEN 1 ELSE 0)
    ELSE IF g.op_type = "OR" THEN (IF in(1) = 1 \/ in(2) = 1 THEN 1 ELSE 0)
    ELSE IF g.op_type = "XOR" THEN (IF in(1) # in(2) THEN 1 ELSE 0)
    ELSE IF g.op_type = "MUX" THEN (IF in(1) = 1 THEN in(2) ELSE in(3))
    ELSE 0

\* .names CONST0 (always 0) and .names CONST1 / 1
ConstEnv(m, v) ==
    [id \in 1..Len(m.objs) |->
        IF id \in DOMAIN v THEN v[id]
        ELSE IF id = get_signal(m, <<"CONST1">>) THEN 1 ELSE 0]

\* The value of every Signal once the combinational gates have settled,
\* the latches (DFF) keeping their state.
RECURSIVE Settle(_, _, _)
Settle(gs, k, env) ==
    IF k > Len(gs) THEN env
    ELSE IF gs[k].op_type = "DFF" THEN Settle(gs, k + 1, env)
    ELSE Settle(gs, k + 1, [env EXCEPT ![gs[k].output] = GateValue(gs[k], env)])

Comb(gs) == {k \in 1..Len(gs) : gs[k].op_type # "DFF"}

Latches(gs) == {k \in 1..Len(gs) : gs[k].op_type = "DFF"}

\* A netlist the export format gives a meaning to: 1-bit signals, one driver
\* per signal, and no gate reading a combinational output before it is driven.
WellFormed(m, gs) ==
    /\ \A k \in 1..Len(gs) : \A s \in Range(gs[k].inputs) \cup {gs[k].output} :
          m.objs[s].width = 1
    /\ \A j, k \in 1..Len(gs) : j # k => gs[j].output # gs[k].output
    /\ \A k \in 1..Len(gs) : gs[k].output \notin {get_signal(m, <<"CONST0">>), get_signal(m, <<"CONST1">>)}
    /\ \A k \in Comb(gs) : \A j \in Comb(gs) :
          gs[j].output \in Range(gs[k].inputs) => j < k

\* The bits a simulation sets freely: latch outputs and undriven data inputs
FreeBits(m, gs) ==
    ({gs[k].output : k \in Latches(gs)}
       \cup UNION {Range(gs[k].inputs) : k \in Comb(gs)}
       \cup {gs[k].inputs[1] : k \in Latches(gs)})
    \ ({gs[k].output : k \in Comb(gs)}
       \cup {get_signal(m, <<"CONST0">>), get_signal(m, <<"CONST1">>)})

\* run: mod.gates = new_gates
BBFinish ==
    /\ pc = "gates"
    /\ gi > Len(gates)
    /\ gates' = new_gates
    /\ pc' = "done"
    /\ val' = IF WellFormed(Mod, new_gates)
              THEN [id \in FreeBits(Mod, new_gates) |-> 0]
              ELSE <<>>
    /\ UNCHANGED <<design, objs, signals, item, hl, bits_map, new_gates, tmp_idx, gi, clocked>>

\* The settled values of the bit-blasted netlist under val
Env == Settle(gates, 1, ConstEnv(Mod, val))

\* A primary input bit changes
Toggle ==
    /\ pc = "done"
    /\ \E id \in DOMAIN val :
          /\ id \notin {gates[k].output : k \in Latches(gates)}
          /\ val' = [val EXCEPT ![id] = 1 - @]
    /\ clocked' = FALSE
    /\ UNCHANGED <<pc, design, objs, signals, gates, item, hl, bits_map, new_gates, tmp_idx, gi>>

\* .latch d q re clk: at a rising clock edge every latch takes its data input
ClockEdge ==
    /\ pc = "done"
    /\ DOMAIN val # {}
    /\ Latches(gates) # {}
    /\ val' = [id \in DOMAIN val |->
                 IF \E k \in Latches(gates) : gates[k].output = id
                 THEN Env[gates[CHOOSE k \in Latches(gates) : gates[k].output = id].inputs[1]]
                 ELSE val[id]]
    /\ clocked' = TRUE
    /\ UNCHANGED <<pc, design, objs, signals, gates, item, hl, bits_map, new_gates, tmp_idx, gi>>

\* ------------------------------------------------------------------ the inputs
Widths == 1..MaxWidth

\* Port declarations: input [w-1:0] name / output [reg] [w-1:0] name
In(name, w) == Ioport("input", <<name>>, w > 1, w - 1, 0, FALSE)

Out(name, w, reg) == Ioport("output", <<name>>, w > 1, 0, w - 1, reg)

Id(name) == Identifier(<<name>>)

Assign(name, rhs) == Substitution(<<name>>, rhs)

\* always @(*) / always @(posedge clk)
CombAlways(stmt) == Always(<<[type |-> "all", sig |-> <<"all">>]>>, stmt)

ClockedAlways(stmt) == Always(<<[type |-> "posedge", sig |-> <<"clk">>]>>, stmt)

Ast(label, w, ports, items) ==
    [kind |-> "ast", label |-> label, w |-> w, ports |-> ports, items |-> items]

\* if (sel) y = a; else y = b;  -- y of width w, a and b declared with width v
MuxDesign(w, v, reg) ==
    Ast("mux", w, <<In("sel", 1), In("a", v), In("b", v), Out("y", w, reg), Out("z", 1, FALSE)>>,
        <<CombAlways(IfStatement(Id("sel"), Assign("y", Id("a")), Assign("y", Id("b"))))>>)

\* y = a + b + c
AddChainDesign(w) ==
    Ast("addchain", w, <<In("a", w), In("b", w), In("c", w), Out("y", w, FALSE)>>,
        <<CombAlways(Block(<<Assign("y", BinOp("Plus", BinOp("Plus", Id("a"), Id("b")), Id("c")))>>))>>)

\* y = a + b
AddDesign(w) ==
    Ast("add", w, <<In("a", w), In("b", w), Out("y", w, FALSE)>>,
        <<CombAlways(Assign("y", BinOp("Plus", Id("a"), Id("b"))))>>)

\* if (s1) y = a; else if (s2) y = b; else y = c;
NestedIfDesign(w) ==
    Ast("nestedif", w,
        <<In("s1", 1), In("s2", 1), In("a", w), In("b", w), In("c", w), Out("y", w, TRUE)>>,
        <<CombAlways(IfStatement(Id("s1"), Assign("y", Id("a")),
                     IfStatement(Id("s2"), Assign("y", Id("b")), Assign("y", Id("c")))))>>)

\* if (op == w'd0) y = a; else if (op == w'd1) y = b; else y = c;
TwoEqDesign(w) ==
    Ast("twoeq", w,
        <<In("op", w), In("a", 1), In("b", 1), In("c", 1), Out("y", 1, TRUE)>>,
        <<CombAlways(
            IfStatement(BinOp("Eq", Id("op"), IntConst(TRUE, w, "d", <<0>>, 1)),
                        Assign("y", Id("a")),
            IfStatement(BinOp("Eq", Id("op"), IntConst(TRUE, w, "d", <<1>>, 2)),
                        Assign("y", Id("b")), Assign("y", Id("c")))))>>)

\* y = (a && b) || (a == c)
LogicDesign(w) ==
    Ast("logic", w, <<In("a", w), In("b", 1), In("c", w), Out("y", 1, FALSE)>>,
        <<CombAlways(Assign("y", BinOp("Lor", BinOp("Land", Id("a"), Id("b")),
                                              BinOp("Eq", Id("a"), Id("c")))))>>)

\* if (sel) y = a;   (no else)
LatchDesign(w) ==
    Ast("latch", w, <<In("sel", 1), In("a", w), Out("y", w, TRUE)>>,
        <<CombAlways(IfStatement(Id("sel"), Assign("y", Id("a")), NoStmt))>>)

\* if (rst) q <= w'b0; else if (en) q <= q + 1;
CounterDesign(w) ==
    Ast("counter", w, <<In("clk", 1), In("rst", 1), In("en", 1), Out("q", w, TRUE)>>,
        <<ClockedAlways(Block(<<
            IfStatement(Id("rst"), Assign("q", IntConst(TRUE, w, "b", <<0>>, 1)),
            IfStatement(Id("en"),
                        Block(<<Assign("q", BinOp("Plus", Id("q"), IntConst(FALSE, 0, "d", <<1>>, 2)))>>),
                        NoStmt))>>))>>)

\* if (rst) q <= rv; else if (en) q <= d;
RegDesign(w) ==
    Ast("reg", w, <<In("clk", 1), In("rst", 1), In("en", 1), In("rv", w), In("d", w), Out("q", w, TRUE)>>,
        <<ClockedAlways(
            IfStatement(Id("rst"), Block(<<Assign("q", Id("rv"))>>),
            IfStatement(Id("en"), Assign("q", Id("d")), NoStmt)))>>)

\* Clocked processes of other shapes
PlainClocked(w) ==
    Ast("plain", w, <<In("clk", 1), In("d", w), Out("q", w, TRUE)>>,
        <<ClockedAlways(Assign("q", Id("d")))>>)

NoEnableClocked(w) ==
    Ast("noenable", w, <<In("clk", 1), In("rst", 1), In("d", w), Out("q", w, TRUE)>>,
        <<ClockedAlways(IfStatement(Id("rst"), Assign("q", IntConst(TRUE, w, "h", <<0>>, 1)),
                                    Assign("q", Id("d"))))>>)

ExprResetClocked(w) ==
    Ast("exprreset", w, <<In("clk", 1), In("rst", 1), In("en", 1), In("d", w), Out("q", w, TRUE)>>,
        <<ClockedAlways(
            IfStatement(BinOp("Eq", Id("rst"), IntConst(TRUE, 1, "b", <<1>>, 1)),
                        Assign("q", IntConst(TRUE, w, "b", <<0>>, 2)),
            IfStatement(Id("en"), Assign("q", Id("d")), NoStmt)))>>)

NestedResetClocked(w) ==
    Ast("nestedreset", w, <<In("clk", 1), In("rst", 1), In("en", 1), In("d", w), Out("q", w, TRUE)>>,
        <<ClockedAlways(
            IfStatement(Id("rst"),
                        IfStatement(Id("en"), Assign("q", Id("d")), NoStmt),
                        NoStmt))>>)

EmptyClocked(w) ==
    Ast("empty", w, <<In("clk", 1), Out("q", w, TRUE)>>, <<ClockedAlways(Block(<<>>))>>)

\* Expressions Elaboration does not compile: y = a - b; y = 3'o7
MinusDesign(w) ==
    Ast("minus", w, <<In("a", w), In("b", w), Out("y", w, FALSE)>>,
        <<CombAlways(Assign("y", BinOp("Minus", Id("a"), Id("b"))))>>)

OctalDesign(w) ==
    Ast("octal", w, <<Out("y", w, FALSE)>>,
        <<CombAlways(Assign("y", IntConst(TRUE, w, "o", <<1>>, 1)))>>)

\* input [w-1:0] a; output a_0; output [w-1:0] y;  y = a
BitNameDesign(w) ==
    Ast("bitname", w,
        <<In("a", w), Ioport("output", <<"a", "0">>, FALSE, 0, 0, FALSE), Out("y", w, FALSE)>>,
        <<CombAlways(Assign("y", Id("a")))>>)

\* y = w'd1
ConstAssignDesign(w) ==
    Ast("constassign", w, <<Out("y", w, FALSE)>>,
        <<CombAlways(Assign("y", IntConst(TRUE, w, "d", <<1>>, 1)))>>)

\* y = a + b  -- y of width w, a and b declared with width v
AddWidthDesign(w, v) ==
    Ast("addwidth", w, <<In("a", v), In("b", v), Out("y", w, FALSE)>>,
        <<CombAlways(Assign("y", BinOp("Plus", Id("a"), Id("b"))))>>)

\* y = ((a + b) == c)
EqOfSumDesign(w) ==
    Ast("eqofsum", w, <<In("a", w), In("b", w), In("c", w), Out("y", 1, FALSE)>>,
        <<CombAlways(Assign("y", BinOp("Eq", BinOp("Plus", Id("a"), Id("b")), Id("c"))))>>)

AstDesigns ==
    UNION {{MuxDesign(w, v, r) : v \in Widths, r \in BOOLEAN} \cup
           {AddWidthDesign(w, v) : v \in Widths} \cup {EqOfSumDesign(w)} \cup
           {AddChainDesign(w), AddDesign(w), NestedIfDesign(w), TwoEqDesign(w), LogicDesign(w),
            LatchDesign(w), CounterDesign(w), RegDesign(w), PlainClocked(w),
            NoEnableClocked(w), ExprResetClocked(w), NestedResetClocked(w), EmptyClocked(w),
            MinusDesign(w), OctalDesign(w), BitNameDesign(w), ConstAssignDesign(w)} : w \in Widths}

\* Modules built directly from Signal and Gate objects; a gate names its
\* signals by their position in sigs.
Netlist(label, w, sigs, gs) ==
    [kind |-> "netlist", label |-> label, w |-> w, sigs |-> sigs, gates |-> gs]

InSig(name, w) == Signal(<<name>>, w, TRUE, FALSE, FALSE)

OutSig(name, w) == Signal(<<name>>, w, FALSE, TRUE, FALSE)

\* one two-operand gate: out = a op b
BinaryNet(op, wa, wb, wo) ==
    Netlist(op, wo, <<InSig("a", wa), InSig("b", wb), OutSig("out", wo)>>,
            <<Gate(op, <<1, 2>>, 3)>>)

\* out = a + CONST_<v>  /  out = (a == CONST_<v>)
ConstOperandNet(op, w, v) ==
    Netlist("const", w,
            <<InSig("a", w), Signal(ConstName(v, w, 9), w, FALSE, FALSE, FALSE), OutSig("out", IF op = "EQ" THEN 1 ELSE w)>>,
            <<Gate(op, <<1, 2>>, 3)>>)

\* out = sel ? t : f
MuxNet(ws, w, wo) ==
    Netlist("MUX", wo, <<InSig("sel", ws), InSig("t", w), InSig("f", w), OutSig("out", wo)>>,
            <<Gate("MUX", <<1, 2, 3>>, 4)>>)

\* out = ~inp / out = inp
UnaryNet(op, wi, wo) ==
    Netlist(op, wo, <<InSig("inp", wi), OutSig("out", wo)>>, <<Gate(op, <<1>>, 2)>>)

\* q <= rst ? rv : (en ? d : q)
DffNet(w, wd) ==
    Netlist("DFF_EN_RST", w,
            <<InSig("d", wd), Signal(<<"q">>, w, FALSE, TRUE, TRUE), InSig("en", 1),
              InSig("rv", wd), InSig("rst", 1), InSig("clk", 1)>>,
            <<Gate("DFF_EN_RST", <<1, 2, 3, 4, 5, 6>>, 2)>>)

\* a gate tag the pass does not know
SubNet(w) ==
    Netlist("SUB", w, <<InSig("a", w), InSig("b", w), OutSig("out", w)>>,
            <<Gate("SUB", <<1, 2>>, 3)>>)

\* a user signal named tmp_xor_0 beside an adder
TmpNameNet(w) ==
    Netlist("tmpname", w,
            <<InSig("a", w), InSig("b", w), OutSig("out", w),
              Signal(<<"tmp", "xor", "0">>, 1, FALSE, TRUE, FALSE), InSig("c", 1)>>,
            <<Gate("BUF", <<5>>, 4), Gate("ADD", <<1, 2>>, 3)>>)

NetDesigns ==
    {BinaryNet(op, wa, wb, wo) : op \in {"AND", "OR", "XOR", "ADD"},
                                 wa \in Widths, wb \in Widths, wo \in Widths}
    \cup {BinaryNet("EQ", wa, wb, 1) : wa \in 0..MaxWidth, wb \in 0..MaxWidth}
    \cup {ConstOperandNet(op, w, v) : op \in {"ADD", "EQ"}, w \in Widths, v \in 0..3}
    \cup {MuxNet(ws, w, wo) : ws \in Widths, w \in Widths, wo \in Widths}
    \cup {UnaryNet(op, wi, wo) : op \in {"NOT", "BUF"}, wi \in Widths, wo \in Widths}
    \cup {DffNet(w, wd) : w \in Widths, wd \in Widths}
    \cup {SubNet(w) : w \in Widths}
    \cup {TmpNameNet(w) : w \in Widths}

Designs == AstDesigns \cup NetDesigns

\* ------------------------------------------------------------------ the pipeline
\* stage_elaboration.run starts from Module(top.name); a Module built
\* directly is handed to stage_bitblast.run as it is.
Init ==
    /\ design \in Designs
    /\ IF design.kind = "ast"
       THEN /\ pc = "ports"
            /\ objs = <<>>
            /\ signals = <<>>
            /\ gates = <<>>
       ELSE /\ pc = "bitblast"
            /\ objs = design.sigs
            /\ signals = [k \in 1..Len(design.sigs) |-> k]
            /\ gates = design.gates
    /\ hl = gates
    /\ item = 1
    /\ bits_map = <<>>
    /\ new_gates = <<>>
    /\ tmp_idx = 0
    /\ gi = 1
    /\ val = <<>>
    /\ clocked = FALSE

Next ==
    \/ ParsePort
    \/ ElabClocked
    \/ ElabComb
    \/ ElabReturn
    \/ BBSetup
    \/ BlastBitwise
    \/ BlastEQ
    \/ BlastMUX
    \/ BlastADD
    \/ BlastDFF
    \/ BlastNOTBUF
    \/ BlastUnsupported
    \/ BBFinish
    \/ Toggle
    \/ ClockEdge

Spec == Init /\ [][Next]_vars

\* ------------------------------------------------------------------ properties
\* A Signal id that is the object stored in mod.signals under its own name
Stored(id) == id \in 1..Len(objs) /\ get_signal(Mod, objs[id].name) = id

\* The Signal of bit i of the width-w signal called base
BitSignal(base, w, i) ==
    IF w = 1 THEN get_signal(Mod, <<base>>) ELSE get_signal(Mod, bit_name(<<base>>, i))

\* The unsigned value of the width-w signal called base, bit 0 least significant
RECURSIVE BusValue(_, _, _)
BusValue(base, w, i) ==
    IF i >= w THEN 0 ELSE Env[BitSignal(base, w, i)] * Pow2(i) + BusValue(base, w, i + 1)

\* C1: no two gates of a Module obtained by bit-blasting the output of
\* Elaboration have the same output Signal.
SingleDriver ==
    pc = "done" /\ design.kind = "ast" =>
        \A j, k \in 1..Len(gates) : j # k => gates[j].output # gates[k].output

\* y = a + b + c over 2-bit ports is bit-blasted, and two gates drive one Signal
SingleDriverBroken ==
    /\ pc = "done"
    /\ design = AddChainDesign(2)
    /\ \E j, k \in 1..Len(gates) : j # k /\ gates[j].output = gates[k].output

Primitive == {"AND", "OR", "XOR", "NOT", "MUX", "DFF", "BUF"}

Arity(op) == IF op \in {"AND", "OR", "XOR", "DFF"} THEN 2 ELSE IF op = "MUX" THEN 3 ELSE 1

\* C2: once Bit-Blasting has completed, the gate sequence is the sequence of
\* emitted primitives: every tag is one of AND, OR, XOR, NOT, MUX, DFF, BUF and
\* every gate has the number of inputs fixed for its tag.
ClosedPrimitiveSet ==
    pc = "done" =>
        /\ gates = new_gates
        /\ \A k \in 1..Len(gates) :
              /\ gates[k].op_type \in Primitive
              /\ Len(gates[k].inputs) = Arity(gates[k].op_type)

\* a Module with a DFF_EN_RST and an ADD gate has been lowered to primitives
ClosedPrimitiveSetReached ==
    /\ pc = "done"
    /\ \E k \in 1..Len(hl) : hl[k].op_type = "DFF_EN_RST"
    /\ \E k \in 1..Len(hl) : hl[k].op_type = "ADD"
    /\ \E k \in 1..Len(gates) : gates[k].op_type = "DFF"
    /\ \E k \in 1..Len(gates) : gates[k].op_type = "NOT" \/ gates[k].op_type = "MUX"

\* C3: once Bit-Blasting has completed, every Signal of mod.signals has width 1.
AllWidthOne == pc = "done" => \A k \in 1..Len(signals) : objs[signals[k]].width = 1

\* the 2-bit port a is still in mod.signals, with width 2, beside its bits
WideSignalKept ==
    /\ pc = "done"
    /\ design = BinaryNet("ADD", 2, 2, 2)
    /\ objs[get_signal(Mod, <<"a">>)].width = 2
    /\ get_signal(Mod, <<"a", "0">>) # None

\* C4: the primitives emitted for one ADD gate over N-bit signals drive the
\* output bits to (a + b) mod 2^N, for every N and all values of a and b.
AdderCorrect ==
    \A n \in Widths :
        pc = "done" /\ design = BinaryNet("ADD", n, n, n) =>
            BusValue("out", n, 0) = (BusValue("a", n, 0) + BusValue("b", n, 0)) % Pow2(n)

\* N = 2, a = 1, b = 1 gives 2
AdderOnePlusOne ==
    /\ pc = "done"
    /\ design = BinaryNet("ADD", 2, 2, 2)
    /\ BusValue("a", 2, 0) = 1
    /\ BusValue("b", 2, 0) = 1
    /\ BusValue("out", 2, 0) = 2

\* C5: the primitives emitted for one EQ gate over two N-bit signals drive the
\* 1-bit output to 1 exactly when the two are bitwise identical; with N = 0
\* the output is 1.
EqCorrect ==
    \A n \in 0..MaxWidth :
        pc = "done" /\ design = BinaryNet("EQ", n, n, 1) =>
            Env[get_signal(Mod, <<"out">>)] =
                IF \A i \in 0..(n - 1) : Env[BitSignal("a", n, i)] = Env[BitSignal("b", n, i)]
                THEN 1 ELSE 0

\* two identical 2-bit vectors with different bits compare equal
EqOfEqualVectors ==
    /\ pc = "done"
    /\ design = BinaryNet("EQ", 2, 2, 1)
    /\ BusValue("a", 2, 0) = 2
    /\ BusValue("b", 2, 0) = 2
    /\ Env[get_signal(Mod, <<"out">>)] = 1

\* The registers q <= rst ? rv : (en ? d : q), given as a DFF_EN_RST gate or elaborated
Registers == {DffNet(n, n) : n \in Widths} \cup {RegDesign(n) : n \in Widths}

\* The value a rising edge must latch into bit i of q
LatchedBit(n, i) ==
    IF val[get_signal(Mod, <<"rst">>)] = 1 THEN val[BitSignal("rv", n, i)]
    ELSE IF val[get_signal(Mod, <<"en">>)] = 1 THEN val[BitSignal("d", n, i)]
    ELSE val[BitSignal("q", n, i)]

MuxLowering ==
    \A w \in Widths, v \in Widths, r \in BOOLEAN :
        pc = "bitblast" /\ design = MuxDesign(w, v, r) =>
            /\ Len(gates) = 2
            /\ gates[1].op_type = "MUX"
            /\ gates[1].inputs = <<get_signal(Mod, <<"sel">>), get_signal(Mod, <<"a">>),
                                   get_signal(Mod, <<"b">>)>>
            /\ Stored(gates[1].output)
            /\ \A k \in 1..Len(design.ports) :
                  get_signal(Mod, design.ports[k].name) \notin {None, gates[1].output}
            /\ gates[2] = Gate("BUF", <<gates[1].output>>, get_signal(Mod, <<"y">>))

\* Elaboration has returned the Module of the 2-bit multiplexer
MuxLowered ==
    /\ pc = "bitblast"
    /\ design = MuxDesign(2, 2, FALSE)
    /\ Len(gates) = 2
    /\ gates[1].op_type = "MUX"
    /\ gates[2].op_type = "BUF"

\* begin ... end around one statement
Inner(stmt) ==
    IF stmt.t = "Block" /\ Len(stmt.statements) = 1 THEN stmt.statements[1] ELSE stmt

\* The one clocked shape: if (rst) q <= ...; else if (en) ...
SupportedShape(always) ==
    /\ Inner(always.statement).t = "IfStatement"
    /\ Inner(always.statement).cond.t = "Identifier"
    /\ Inner(Inner(always.statement).true_statement).t = "Substitution"
    /\ Inner(always.statement).false_statement.t = "IfStatement"
    /\ Inner(always.statement).false_statement.cond.t = "Identifier"

\* C8: Elaboration never returns a Module for a design with a clocked process
\* of another shape than the supported one.
FailFast ==
    /\ design.kind = "ast"
    /\ \E k \in 1..Len(design.items) :
          is_clocked(design.items[k]) /\ ~SupportedShape(design.items[k])
    => pc \notin {"bitblast", "gates", "done"}

\* always @(posedge clk) q <= d; is returned as a Module without any gate
ClockedSkipped ==
    /\ pc = "bitblast"
    /\ design = PlainClocked(1)
    /\ gates = <<>>

\* C9: in the Module Elaboration returns and in the Module Bit-Blasting
\* leaves, every input and the output of every gate is the Signal object
\* stored in mod.signals under its name.
ReferentialIntegrity ==
    pc \in {"bitblast", "done"} =>
        \A k \in 1..Len(gates) :
            /\ Stored(gates[k].output)
            /\ \A s \in Range(gates[k].inputs) : Stored(s)

\* the counter has gone through both passes, its gates using temporaries
CounterLowered ==
    /\ pc = "done"
    /\ design = CounterDesign(2)
    /\ \E k \in 1..Len(gates) : objs[gates[k].output].name[1] = "tmp"
    /\ \A k \in 1..Len(gates) : Stored(gates[k].output)

\* C10: once Bit-Blasting has completed, every Signal of width N > 1 has its
\* N bits <base>_0 .. <base>_(N-1) in mod.signals, each of width 1 and with
\* the parent's input, output and register flags.
BusExpansion ==
    pc = "done" =>
        \A k \in 1..Len(signals) : \A i \in 0..(objs[signals[k]].width - 1) :
            objs[signals[k]].width > 1 =>
                /\ get_signal(Mod, bit_name(objs[signals[k]].name, i)) # None
                /\ bits_map[objs[signals[k]].name][i + 1]
                       = get_signal(Mod, bit_name(objs[signals[k]].name, i))
                /\ objs[get_signal(Mod, bit_name(objs[signals[k]].name, i))]
                       = Signal(bit_name(objs[signals[k]].name, i), 1,
                                objs[signals[k]].is_input, objs[signals[k]].is_output,
                                objs[signals[k]].is_reg)

\* bit 0 of the input bus a is the output port a_0
BitIsOtherPort ==
    /\ pc = "done"
    /\ design = BitNameDesign(2)
    /\ bits_map[<<"a">>][1] = get_signal(Mod, <<"a", "0">>)
    /\ objs[bits_map[<<"a">>][1]].is_output
    /\ ~objs[bits_map[<<"a">>][1]].is_input

\* Bit i of the width-w operand called base, zero-extended
OperandBit(base, w, i) == IF i < w THEN BitSignal(base, w, i) ELSE const0(Mod)

\* The gates of every stage: the high-level sequence, the one being built, the result
AllGates == Range(hl) \cup Range(gates) \cup Range(new_gates)

\* The MUX gates Elaboration returns for the conditionals of the designs
ElabMuxOrder ==
    \A w \in Widths :
        /\ design = LatchDesign(w) =>
              gates[1] = Gate("MUX", <<get_signal(Mod, <<"sel">>), get_signal(Mod, <<"a">>),
                                       get_signal(Mod, <<"y">>)>>,
                              get_signal(Mod, <<"mux", "y", "0">>))
        /\ design = NestedIfDesign(w) =>
              /\ gates[1].inputs = <<get_signal(Mod, <<"s2">>), get_signal(Mod, <<"b">>),
                                     get_signal(Mod, <<"c">>)>>
              /\ gates[2].inputs = <<get_signal(Mod, <<"s1">>), get_signal(Mod, <<"a">>),
                                     gates[1].output>>
              /\ gates[1].op_type = "MUX" /\ gates[2].op_type = "MUX"

\* The per-bit MUXes of a bus MUX out = sel ? t : f
BusMuxOrder ==
    \A ws \in Widths, w \in Widths, wo \in Widths :
        design = MuxNet(ws, w, wo) =>
            /\ Len(gates) = wo
            /\ \A i \in 0..(wo - 1) :
                  gates[i + 1] = Gate("MUX", <<BitSignal("sel", ws, 0), OperandBit("t", w, i),
                                                OperandBit("f", w, i)>>,
                                      BitSignal("out", wo, i))

\* The two MUXes per bit of a DFF_EN_RST expansion: en ? d : q, then rst ? rv : that
DffMuxOrder ==
    \A w \in Widths, wd \in Widths :
        design = DffNet(w, wd) =>
            /\ Len(gates) = 3 * w
            /\ \A i \in 0..(w - 1) :
                  /\ gates[3 * i + 1].op_type = "MUX"
                  /\ gates[3 * i + 1].inputs =
                         <<get_signal(Mod, <<"en">>), OperandBit("d", wd, i), BitSignal("q", w, i)>>
                  /\ gates[3 * i + 2].op_type = "MUX"
                  /\ gates[3 * i + 2].inputs =
                         <<get_signal(Mod, <<"rst">>), OperandBit("rv", wd, i),
                           gates[3 * i + 1].output>>

\* C11: every MUX gate of every stage has three inputs, in the order
\* [selector, value when the selector is 1, value when it is 0]; the per-bit
\* MUXes of Bit-Blasting all have bit 0 of the selector as their first input.
MuxOperandOrder ==
    /\ \A g \in AllGates : g.op_type = "MUX" => Len(g.inputs) = 3
    /\ pc = "bitblast" => ElabMuxOrder
    /\ pc = "done" => BusMuxOrder /\ DffMuxOrder

\* a 2-bit MUX with a 2-bit selector is lowered: both bits are selected by sel_0
BusMuxLowered ==
    /\ pc = "done"
    /\ design = MuxNet(2, 2, 2)
    /\ Len(gates) = 2
    /\ gates[1].inputs[1] = get_signal(Mod, <<"sel", "0">>)
    /\ gates[2].inputs[1] = get_signal(Mod, <<"sel", "0">>)
    /\ gates[2].inputs[2] = get_signal(Mod, <<"t", "1">>)

\* C12: every ADD, EQ, AND, OR and MUX gate Elaboration emits has an output
\* Signal that no other gate drives and that is not one of its own inputs.
FreshIntermediates ==
    pc = "bitblast" /\ design.kind = "ast" =>
        \A k \in 1..Len(gates) :
            gates[k].op_type \in {"ADD", "EQ", "AND", "OR", "MUX"} =>
                /\ gates[k].output \notin Range(gates[k].inputs)
                /\ \A j \in 1..Len(gates) : j # k => gates[j].output # gates[k].output

\* y = a + b + c: the second ADD gate reads and drives the output of the first
AdderFeedsItself ==
    /\ pc = "bitblast"
    /\ design = AddChainDesign(2)
    /\ gates[1].op_type = "ADD"
    /\ gates[2].op_type = "ADD"
    /\ gates[2].output = gates[1].output
    /\ gates[2].output \in Range(gates[2].inputs)

\* Bit i of the Signal id, by its name
BitOfSignal(id, i) ==
    IF objs[id].width = 1 THEN id ELSE get_signal(Mod, bit_name(objs[id].name, i))

\* C13: for every high-level NOT or BUF gate with an output of width N,
\* Bit-Blasting emits for each bit i in 0..N-1 a primitive (NOT, or AND with
\* logic-1 for BUF) that drives bit i of the output.
UnaryPerBit ==
    pc = "done" =>
        \A k \in 1..Len(hl) :
            hl[k].op_type \in {"NOT", "BUF"} =>
                \A i \in 0..(objs[hl[k].output].width - 1) :
                    \E j \in 1..Len(gates) :
                        /\ gates[j].output = BitOfSignal(hl[k].output, i)
                        /\ gates[j].op_type = IF hl[k].op_type = "NOT" THEN "NOT" ELSE "AND"

\* y = a + b over 2-bit ports: no gate drives y_1
UpperBitUndriven ==
    /\ pc = "done"
    /\ design = AddDesign(2)
    /\ hl[2].op_type = "BUF"
    /\ \E j \in 1..Len(gates) : gates[j].output = get_signal(Mod, <<"y", "0">>)
    /\ \A j \in 1..Len(gates) : gates[j].output # get_signal(Mod, <<"y", "1">>)

\* The global logic Signal for one bit of a literal
LogicSignal(b) == IF b = 1 THEN const1(Mod) ELSE const0(Mod)

\* C14: a literal-encoded constant Signal used as an input of a high-level
\* gate is replaced bit by bit by the global logic-0 / logic-1 Signals, bit i
\* being logic-1 exactly when bit i of the value is 1; no primitive gate has a
\* literal-encoded Signal, or a bit expanded from one, as an input.
ConstantsDecoded ==
    pc = "done" =>
        /\ \A k \in 1..Len(gates) : \A s \in Range(gates[k].inputs) : ~IsConstName(objs[s].name)
        /\ \A w \in Widths, v \in 0..3 :
              design = ConstOperandNet("ADD", w, v) =>
                  \A i \in 0..(w - 1) :
                      gates[7 * i + 1].inputs = <<BitSignal("a", w, i), LogicSignal(BitOf(v, i))>>

\* y = 1'd1 is lowered to an AND of the literal's own Signal with logic-1
LiteralSignalRead ==
    /\ pc = "done"
    /\ design = ConstAssignDesign(1)
    /\ Len(gates) = 1
    /\ gates[1].op_type = "AND"
    /\ gates[1].inputs = <<get_signal(Mod, ConstName(1, 1, 1)), const1(Mod)>>
    /\ gates[1].output = get_signal(Mod, <<"y">>)

\* The width of the Signal id
WidthOf(id) == objs[id].width

\* C15: the result Signal of an ADD whose operands have widths Wa and Wb has
\* width max(Wa, Wb, E) under an expected width E and max(Wa, Wb) without
\* one; the result Signal of EQ, logical AND and logical OR has width 1.
ResultWidth ==
    pc = "bitblast" /\ design.kind = "ast" =>
        /\ \A w \in Widths, v \in Widths :
              design = AddWidthDesign(w, v) =>
                  /\ gates[1].op_type = "ADD"
                  /\ WidthOf(gates[1].output) =
                         Max(Max(WidthOf(gates[1].inputs[1]), WidthOf(gates[1].inputs[2])), w)
        /\ \A w \in Widths :
              design = EqOfSumDesign(w) =>
                  /\ gates[1].op_type = "ADD"
                  /\ WidthOf(gates[1].output) =
                         Max(WidthOf(gates[1].inputs[1]), WidthOf(gates[1].inputs[2]))
        /\ \A k \in 1..Len(gates) :
              gates[k].op_type \in {"EQ", "AND", "OR"} => WidthOf(gates[k].output) = 1

\* the sum of two 2-bit ports assigned to a 1-bit output has width 1
NarrowSum ==
    /\ pc = "bitblast"
    /\ design = AddWidthDesign(1, 2)
    /\ gates[1].op_type = "ADD"
    /\ WidthOf(gates[1].inputs[1]) = 2
    /\ WidthOf(gates[1].inputs[2]) = 2
    /\ WidthOf(gates[1].output) = 1

\* The Signals the design itself declares: those of the Module given to
\* Bit-Blasting, the ports for a design that is elaborated first
Declared ==
    IF design.kind = "netlist" THEN 1..Len(design.sigs)
    ELSE {get_signal(Mod, design.ports[k].name) : k \in 1..Len(design.ports)}

\* The number of bits of the buses among sigs[k..]
RECURSIVE BusBitCount(_, _)
BusBitCount(sigs, k) ==
    IF k > Len(sigs) THEN 0
    ELSE (IF sigs[k].width > 1 THEN sigs[k].width ELSE 0) + BusBitCount(sigs, k + 1)

\* C16: every Signal Bit-Blasting introduces is a new width-1 Signal: no bit
\* of a bus is a Signal the design declares, and the mapping grows by the two
\* logic constants, one Signal per bus bit and one per temporary requested.
NameFreshness ==
    pc = "done" =>
        /\ \A k \in 1..Len(signals) :
              WidthOf(signals[k]) > 1 =>
                  \A i \in 1..Len(bits_map[objs[signals[k]].name]) :
                      /\ bits_map[objs[signals[k]].name][i] \notin Declared
                      /\ WidthOf(bits_map[objs[signals[k]].name][i]) = 1
        /\ design.kind = "netlist" =>
              Len(signals) = Len(design.sigs) + 2 + BusBitCount(design.sigs, 1) + tmp_idx

\* the adder's first temporary is the user's signal tmp_xor_0
TemporaryIsUserSignal ==
    /\ pc = "done"
    /\ design = TmpNameNet(1)
    /\ get_signal(Mod, <<"tmp", "xor", "0">>) \in Declared
    /\ \E k \in 1..Len(gates) :
          /\ gates[k].op_type = "XOR"
          /\ gates[k].output = get_signal(Mod, <<"tmp", "xor", "0">>)
    /\ tmp_idx = 6
    /\ Len(signals) = Len(design.sigs) + 2 + 5

====
